---- MODULE Spec2Model ----
(***************************************************************************)
(* SpringRoll Application: the lifecycle orchestrator and frame scheduler  *)
(* of src/unnamed/part_000 (class Application), as a state machine.        *)
(*                                                                         *)
(* JavaScript runs one call stack at a time.  The variable `stack` is that *)
(* call stack: an operation that emits events or calls plugin hooks is     *)
(* split at those points, because handler code runs there and may call     *)
(* back into the Application.  Timer callbacks and user calls start only   *)
(* when the stack is empty.                                                *)
(***************************************************************************)
EXTENDS Integers, Sequences, FiniteSets, TLC

\* ---------------------------------------------------------------- bounds
MaxApps == 2        \* Application objects constructed in one run
MaxPlugins == 2     \* entries of Application._plugins
MaxDisplays == 2    \* display objects created by display constructors
MaxTime == 1        \* readings of performance.now() are 0..MaxTime
MaxNested == 1      \* calls made from handlers during one top-level call
MaxPending == 2     \* the user resumes only while fewer requests are pending
MaxSpent == 3       \* the time spent in a tick is 0..MaxSpent
MaxUpdates == 5     \* update calls one delayed call receives
MaxDefines == 2     \* sizes defined on the AssetSizes object between resets
MaxSockets == 2     \* WebSocket objects Debug.connect creates
MaxMessages == 4    \* messages handed to Debug.remoteLog

NULL == 0           \* a null reference (objects and handles count from 1)
NoTick == -1        \* this._tickId = -1: no request outstanding
NullList == <<NULL>>                 \* this._displays = null

Apps == 1..MaxApps
DisplayIds == {"a", "b"}
InitialCanvasId == "a"
NullMap == [d \in DisplayIds |-> -1]  \* this._displaysMap = null

VARIABLES
    _instance,   \* Application._instance: an element of Apps, or NULL
    _plugins,    \* Application._plugins: per registered plugin, has it a preload hook
    made,        \* number of Application objects constructed so far
    app,         \* the fields of each Application object
    obs,         \* per Application: the hooks and events observed on it (history)
    displays,    \* the display objects created so far, by handle 1..Len
    timers,      \* pending requestAnimationFrame / setTimeout tick requests
    now,         \* performance.now()
    stack,       \* the call stack (frames of operations that are in progress)
    trace,       \* what the current top-level call has done so far, in order
    nested,      \* calls made from handlers during the current top-level call
    result,      \* how the last completed top-level call ended: "ok" or "throw"
    assets,      \* the fields of the AssetSizes object
    debug        \* the static fields of Debug, its socket and what was sent on it

vars == <<_instance, _plugins, made, app, obs, displays, timers, now,
          stack, trace, nested, result, assets, debug>>

\* ------------------------------------------------------------- helpers
Last(s) == s[Len(s)]
Front(s) == SubSeq(s, 1, Len(s) - 1)
Range(s) == {s[x] : x \in 1..Len(s)}
RECURSIVE Reverse(_)
Reverse(s) == IF s = <<>> THEN <<>> ELSE Append(Reverse(Tail(s)), Head(s))
RECURSIVE Without(_, _)
\* Array.prototype.splice(indexOf(h), 1): remove the first occurrence of h
Without(s, h) ==
    IF s = <<>> THEN <<>>
    ELSE IF Head(s) = h THEN Tail(s) ELSE <<Head(s)>> \o Without(Tail(s), h)

Top == Last(stack)
\* A frame: the operation, its Application, where it stands, a loop index k,
\* a number n and a boolean v it holds as locals.
Frame(op, i, pc, n, v) ==
    [op |-> op, i |-> i, pc |-> pc, k |-> 0, n |-> n, v |-> v, at |-> Len(trace)]
AtTop(op, pc) == stack # <<>> /\ Top.op = op /\ Top.pc = pc
Goto(pc, k) == Append(Front(stack), [Top EXCEPT !.pc = pc, !.k = k])
Idle == stack = <<>>
Exists(i) == i \in 1..made

\* EventDispatcher: this.destroyed, set by EventDispatcher.destroy()
Destroyed(i) == app[i].destroyed
\* this.trigger(name, arg): the trace records the call
Trigger(i, ev) == Append(trace, ev)

\* The constructor with the paused flag initialised to true
NewAppPaused(hasInit, canvas) ==
    [destroyed |-> FALSE,
     options |-> [raf |-> FALSE, canvas |-> canvas, listening |-> FALSE, isNull |-> FALSE],
     display |-> NULL,
     init |-> hasInit,
     _lastFrameTime |-> 0,
     _msPerFrame |-> 0,
     _tickCallback |-> TRUE,
     _paused |-> TRUE,
     _enabled |-> TRUE,
     _tickId |-> NoTick,
     _useRAF |-> FALSE,
     _displays |-> <<>>,
     _displaysMap |-> [d \in DisplayIds |-> NULL],
     boot |-> "constructing",
     tasks |-> <<>>,
     task |-> 0]

\* The fields the constructor assigns, lines 42-128
NewApp(hasInit, canvas) ==
    [destroyed |-> FALSE,
     options |-> [raf |-> FALSE, canvas |-> canvas, listening |-> FALSE, isNull |-> FALSE],
     display |-> NULL,
     init |-> hasInit,
     _lastFrameTime |-> 0,
     _msPerFrame |-> 0,
     _tickCallback |-> TRUE,
     _paused |-> FALSE,
     _enabled |-> TRUE,
     _tickId |-> NoTick,
     _useRAF |-> FALSE,
     _displays |-> <<>>,
     _displaysMap |-> [d \in DisplayIds |-> NULL],
     boot |-> "constructing",
     tasks |-> <<>>,
     task |-> 0]

\* What has been observed of one Application: the plugins whose setup,
\* preload and teardown hooks were invoked, in order; the preload tasks that
\* signalled completion; the events of final init; what happened after
\* destroy was first called; the time of a resume that followed a pause
\* and that no update has followed yet (-1 when there is none); whether
\* destroy was called again after it had completed; and whether a plugin's
\* setup threw.
NoObs ==
    [registered |-> 0, setup |-> <<>>, preload |-> <<>>, completed |-> 0,
     inits |-> <<>>, teardown |-> <<>>, assigned |-> FALSE, destroyAt |-> "",
     lateStart |-> FALSE, latePreload |-> FALSE, lateDisplay |-> FALSE,
     lateInit |-> FALSE, resumedAt |-> -1, again |-> FALSE, setupThrew |-> FALSE]

\* The ids, maxSize values and fallback lists sizes are defined with; the
\* stage dimensions and device pixel ratios of refresh; and what a supported
\* map holds for an id: true, false or nothing
SizeIds == {"sd", "hd"}
MaxSizeValues == {2, 4}
Fallbacks == {<<>>, <<"sd">>, <<"hd", "sd">>}
Dims == {1, 3}
Ratios == {1, 2}
Support == {"true", "false", "undefined"}

\* No size object: null or undefined
NullSize == [id |-> "", maxSize |-> 0, scale |-> 0, fallback |-> <<>>]

\* No call made yet on the AssetSizes object
NoCall ==
    [op |-> "", minSize |-> 0, dpr |-> 0, hasSupported |-> FALSE,
     supported |-> [id \in SizeIds |-> "undefined"], returned |-> NullSize, threw |-> ""]

\* new AssetSizes(), AssetSizes.js lines 8-30; `call` is the last call made
\* on the object, with its arguments and its outcome
NewAssetSizes ==
    [_sizes |-> <<>>, _sizesMap |-> [id \in SizeIds |-> NullSize],
     _preferredSize |-> NullSize, call |-> NoCall]

\* Debug._messageQueue = null
NullQueue == [isNull |-> TRUE, items |-> <<>>]

\* The statics of Debug as the module leaves them, part_002 lines 143-167;
\* `sockets` are the WebSocket objects created so far and `logged` counts
\* the messages handed to remoteLog
NewDebug ==
    [_isConnected |-> FALSE, _socket |-> NULL, _messageObj |-> "null",
     _messageQueue |-> NullQueue, sockets |-> <<>>, logged |-> 0]

Init ==
    /\ _instance = NULL
    /\ _plugins = <<>>
    /\ made = 0
    /\ app = [i \in Apps |-> NewApp(FALSE, FALSE)]
    /\ obs = [i \in Apps |-> NoObs]
    /\ displays = <<>>
    /\ timers = {}
    /\ now = 0
    /\ stack = <<>>
    /\ trace = <<>>
    /\ nested = 0
    /\ result = "ok"
    /\ assets = NewAssetSizes
    /\ debug = NewDebug

\* ------------------------------------------------------- plugin registry
\* A plugin is registered by appending it to Application._plugins
RegisterPlugin(hasPreload) ==
    /\ Idle
    /\ Len(_plugins) < MaxPlugins
    /\ _plugins' = Append(_plugins, hasPreload)
    /\ result' = "ok"
    /\ UNCHANGED <<assets, debug, _instance, made, app, obs, displays, timers, now, stack, trace, nested>>

\* ------------------------------------------------------------ call stack
\* A finished call returns to its caller; back at top level the trace of the
\* call is dropped.
Return ==
    /\ stack # <<>>
    /\ Top.pc = "done"
    /\ stack' = Front(stack)
    /\ trace' = IF Len(stack) = 1 THEN <<>> ELSE trace
    /\ nested' = IF Len(stack) = 1 THEN 0 ELSE nested
    /\ result' = "ok"
    /\ UNCHANGED <<assets, debug, _instance, _plugins, made, app, obs, displays, timers, now>>

\* An exception nobody catches unwinds every frame of the current call.
Uncaught ==
    /\ stack' = <<>>
    /\ trace' = <<>>
    /\ nested' = 0
    /\ result' = "throw"

Ev(name, arg) == [ev |-> name, arg |-> arg]
\* trigger('displayRemoved', id)
IdEv(name, id) == [ev |-> name, id |-> id]
\* display.render(elapsed), called on display h
RenderEv(h, elapsed) == [ev |-> "render", arg |-> h, elapsed |-> elapsed]

\* ----------------------------------------------------------- constructor
\* The constructor without its singleton check
ConstructUnchecked(hasInit, canvas) ==
    /\ Idle
    /\ made < MaxApps
    /\ made' = made + 1
    /\ _instance' = made + 1
    /\ app' = [app EXCEPT ![made + 1] = NewApp(hasInit, canvas)]
    /\ obs' = [obs EXCEPT ![made + 1].registered = Len(_plugins)]
    /\ stack' = <<Frame("new", made + 1, "setup", Len(_plugins), FALSE)>>
    /\ result' = "ok"
    /\ UNCHANGED <<assets, debug, _plugins, displays, timers, now, trace, nested>>

\* new Application(options, init), lines 26-34: the singleton check
Construct(hasInit, canvas) ==
    /\ Idle
    /\ UNCHANGED <<assets, debug>>
    /\ IF _instance # NULL
       THEN /\ result' = "throw"
            /\ UNCHANGED <<_instance, _plugins, made, app, obs, displays, timers,
                           now, stack, trace, nested>>
       ELSE /\ made < MaxApps
            /\ made' = made + 1
            /\ _instance' = made + 1
            /\ app' = [app EXCEPT ![made + 1] = NewApp(hasInit, canvas)]
            /\ obs' = [obs EXCEPT ![made + 1].registered = Len(_plugins)]
            /\ stack' = <<Frame("new", made + 1, "setup", Len(_plugins), FALSE)>>
            /\ result' = "ok"
            /\ UNCHANGED <<_plugins, displays, timers, now, trace, nested>>

\* lines 131-133: plugin.setup.call(this), one plugin after the other
SetupOrder(n) == [x \in 1..n |-> x]

ConstructSetup ==
    /\ AtTop("new", "setup")
    /\ Top.k < Top.n
    /\ LET p == SetupOrder(Top.n)[Top.k + 1] IN
       obs' = [obs EXCEPT ![Top.i].setup = Append(@, p)]
    /\ stack' = Goto("setup", Top.k + 1)
    /\ UNCHANGED <<assets, debug, _instance, _plugins, made, app, displays, timers, now, trace,
                   nested, result>>

\* A setup hook whose exception is swallowed by the loop
ConstructSetupCaught ==
    /\ AtTop("new", "setup")
    /\ Top.k < Top.n
    /\ LET p == SetupOrder(Top.n)[Top.k + 1] IN
       obs' = [obs EXCEPT ![Top.i].setup = Append(@, p), ![Top.i].setupThrew = TRUE]
    /\ stack' = Goto("setup", Top.k + 1)
    /\ UNCHANGED <<assets, debug, _instance, _plugins, made, app, displays, timers, now, trace,
                   nested, result>>

\* lines 131-133: plugin.setup.call(this) throws; nothing catches it, so the
\* forEach and the constructor end there
ConstructSetupThrows ==
    /\ AtTop("new", "setup")
    /\ Top.k < Top.n
    /\ LET p == SetupOrder(Top.n)[Top.k + 1] IN
       obs' = [obs EXCEPT ![Top.i].setup = Append(@, p), ![Top.i].setupThrew = TRUE]
    /\ Uncaught
    /\ UNCHANGED <<assets, debug, _instance, _plugins, made, app, displays, timers, now>>

\* The constructor without its setTimeout(_preInit) call
ConstructEndNoTimeout ==
    /\ AtTop("new", "setup")
    /\ Top.k >= Top.n
    /\ stack' = Goto("done", 0)
    /\ UNCHANGED <<assets, debug, _instance, _plugins, made, app, obs, displays, timers, now, trace,
                   nested, result>>

\* lines 137-150: options.init(); setTimeout(this._preInit.bind(this), 0)
ConstructEnd ==
    /\ AtTop("new", "setup")
    /\ Top.k >= Top.n
    /\ app' = [app EXCEPT ![Top.i].boot = "preInit"]
    /\ stack' = Goto("done", 0)
    /\ UNCHANGED <<assets, debug, _instance, _plugins, made, obs, displays, timers, now, trace,
                   nested, result>>

\* --------------------------------------------------------------- displays
\* A display created with the enabled flag left at true
NewDisplayEnabled(i, id) == [id |-> id, app |-> i, enabled |-> TRUE, destroyed |-> 0]

\* new displayConstructor(id, options), line 352, and line 359:
\* display.enabled = this._enabled
NewDisplay(i, id) ==
    [id |-> id, app |-> i, enabled |-> app[i]._enabled, destroyed |-> 0]

\* addDisplay making every new display the primary one
AddedAsPrimary(a, id, h) ==
    [a EXCEPT !._displaysMap[id] = h,
              !._displays = Append(@, h),
              !.display = h]

\* addDisplay, lines 355-364: register the display, first one becomes primary
Added(a, id, h) ==
    [a EXCEPT !._displaysMap[id] = h,
              !._displays = Append(@, h),
              !.display = IF @ = NULL THEN h ELSE @]

\* addDisplay without its duplicate-id check
AddDisplayUnchecked(i, id) ==
    /\ Idle
    /\ Exists(i)
    /\ IF app[i]._displaysMap = NullMap
       THEN /\ result' = "throw"
            /\ UNCHANGED <<app, displays, stack, trace>>
       ELSE /\ Len(displays) < MaxDisplays
            /\ displays' = Append(displays, NewDisplay(i, id))
            /\ app' = [app EXCEPT ![i] = Added(@, id, Len(displays) + 1)]
            /\ trace' = Trigger(i, Ev("displayAdded", Len(displays) + 1))
            /\ stack' = <<Frame("addDisplay", i, "done", Len(displays) + 1, FALSE)>>
            /\ result' = "ok"
    /\ UNCHANGED <<assets, debug, _instance, _plugins, made, obs, timers, now, nested>>

\* addDisplay(id, displayConstructor, options), lines 345-367
AddDisplay(i, id) ==
    /\ Idle
    /\ Exists(i)
    /\ IF app[i]._displaysMap = NullMap
       THEN \* this._displaysMap[id] on null: TypeError
            /\ result' = "throw"
            /\ UNCHANGED <<app, displays, stack, trace>>
       ELSE IF app[i]._displaysMap[id] # NULL
       THEN /\ result' = "throw"
            /\ UNCHANGED <<app, displays, stack, trace>>
       ELSE /\ Len(displays) < MaxDisplays
            /\ displays' = Append(displays, NewDisplay(i, id))
            /\ app' = [app EXCEPT ![i] = Added(@, id, Len(displays) + 1)]
            /\ trace' = Trigger(i, Ev("displayAdded", Len(displays) + 1))
            /\ stack' = <<Frame("addDisplay", i, "done", Len(displays) + 1, FALSE)>>
            /\ result' = "ok"
    /\ UNCHANGED <<assets, debug, _instance, _plugins, made, obs, timers, now, nested>>

\* removeDisplay that also clears the primary reference
RemoveDisplayClearing(i, id) ==
    /\ Idle
    /\ Exists(i)
    /\ IF app[i]._displaysMap = NullMap
       THEN /\ result' = "throw"
            /\ UNCHANGED <<app, displays, stack, trace>>
       ELSE LET h == app[i]._displaysMap[id] IN
            /\ result' = "ok"
            /\ IF h = NULL
               THEN UNCHANGED <<app, displays, stack, trace>>
               ELSE /\ app' = [app EXCEPT ![i]._displays = Without(@, h),
                                          ![i]._displaysMap[id] = NULL,
                                          ![i].display = IF @ = h THEN NULL ELSE @]
                    /\ displays' = [displays EXCEPT ![h].destroyed = @ + 1]
                    /\ trace' = Trigger(i, IdEv("displayRemoved", id))
                    /\ stack' = <<Frame("removeDisplay", i, "done", h, FALSE)>>
    /\ UNCHANGED <<assets, debug, _instance, _plugins, made, obs, timers, now, nested>>

\* removeDisplay that leaves the handle in the display list
RemoveDisplayKeeping(i, id) ==
    /\ Idle
    /\ Exists(i)
    /\ IF app[i]._displaysMap = NullMap
       THEN /\ result' = "throw"
            /\ UNCHANGED <<app, displays, stack, trace>>
       ELSE LET h == app[i]._displaysMap[id] IN
            /\ result' = "ok"
            /\ IF h = NULL
               THEN UNCHANGED <<app, displays, stack, trace>>
               ELSE /\ app' = [app EXCEPT ![i]._displaysMap[id] = NULL]
                    /\ displays' = [displays EXCEPT ![h].destroyed = @ + 1]
                    /\ trace' = Trigger(i, IdEv("displayRemoved", id))
                    /\ stack' = <<Frame("removeDisplay", i, "done", h, FALSE)>>
    /\ UNCHANGED <<assets, debug, _instance, _plugins, made, obs, timers, now, nested>>

\* removeDisplay(id), lines 395-405
RemoveDisplay(i, id) ==
    /\ Idle
    /\ Exists(i)
    /\ IF app[i]._displaysMap = NullMap
       THEN \* this._displaysMap[id] on null: TypeError
            /\ result' = "throw"
            /\ UNCHANGED <<app, displays, stack, trace>>
       ELSE LET h == app[i]._displaysMap[id] IN
            /\ result' = "ok"
            /\ IF h = NULL
               THEN UNCHANGED <<app, displays, stack, trace>>
               ELSE /\ app' = [app EXCEPT ![i]._displays = Without(@, h),
                                          ![i]._displaysMap[id] = NULL]
                    /\ displays' = [displays EXCEPT ![h].destroyed = @ + 1]
                    /\ trace' = Trigger(i, IdEv("displayRemoved", id))
                    /\ stack' = <<Frame("removeDisplay", i, "done", h, FALSE)>>
    /\ UNCHANGED <<assets, debug, _instance, _plugins, made, obs, timers, now, nested>>

\* Ids that name a property every object inherits: this._displaysMap is a
\* plain object (line 128), so looking one up yields the inherited value
ProtoIds == {"constructor"}
Inherited == -2     \* Object.prototype[id]: truthy, and not a display

\* getDisplay(id), lines 385-388
GetDisplay(i, id) == IF id \in ProtoIds THEN Inherited ELSE app[i]._displaysMap[id]

\* addDisplay(id, ...) with an inherited id, lines 347-350: the lookup is
\* truthy, so "Display exists" is thrown
AddInherited(i, id) ==
    /\ Idle
    /\ Exists(i)
    /\ app[i]._displaysMap # NullMap
    /\ GetDisplay(i, id) = Inherited
    /\ result' = "throw"
    /\ UNCHANGED <<_instance, _plugins, made, app, obs, displays, timers, now, stack,
                   trace, nested, assets, debug>>

\* removeDisplay(id) with an inherited id, lines 397-401: the lookup is
\* truthy; indexOf does not find it and returns -1; splice(-1, 1) takes the
\* last display off the list; display.destroy is not a function: TypeError
RemoveInherited(i, id) ==
    /\ Idle
    /\ Exists(i)
    /\ app[i]._displaysMap # NullMap
    /\ GetDisplay(i, id) = Inherited
    /\ app' = [app EXCEPT ![i]._displays = IF @ = <<>> THEN @ ELSE Front(@)]
    /\ result' = "throw"
    /\ UNCHANGED <<_instance, _plugins, made, obs, displays, timers, now, stack,
                   trace, nested, assets, debug>>

\* set enabled(enabled), lines 250-256
SetEnabled(i, v) ==
    /\ Idle
    /\ Exists(i)
    /\ app' = [app EXCEPT ![i]._enabled = v]
    /\ IF app[i]._displays = NullList
       THEN /\ result' = "throw"
            /\ UNCHANGED displays
       ELSE /\ result' = "ok"
            /\ displays' = [h \in DOMAIN displays |->
                             IF h \in Range(app[i]._displays)
                             THEN [displays[h] EXCEPT !.enabled = v]
                             ELSE displays[h]]
    /\ UNCHANGED <<assets, debug, _instance, _plugins, made, obs, timers, now, stack, trace, nested>>

\* ------------------------------------------------------------- scheduler
B(v) == IF v THEN 1 ELSE 0
Kind(a) == IF a._useRAF THEN "raf" ELSE "timeout"
TimersOf(i) == {t \in timers : t.app = i}

\* The id a new requestAnimationFrame / setTimeout call returns: one that no
\* pending request has and no Application still holds.
FreshId ==
    CHOOSE n \in 1..(Cardinality(timers) + MaxApps + 1) :
        /\ \A t \in timers : t.id # n
        /\ \A i \in Apps : app[i]._tickId # n

\* cancelAnimationFrame(id) / clearTimeout(id): drops the pending request of
\* that kind with that id, if there is one
Cancelled(kind, id) == {t \in timers : ~(t.kind = kind /\ t.id = id)}

\* requestAnimationFrame(cb) or requestTimeout(cb), lines 307-309 and 441-443
Requested(i, kind) == timers \cup {[kind |-> kind, id |-> FreshId, app |-> i]}

\* A request made now: late if destroy has been called on the Application
RequestSeen(o, i) ==
    [o EXCEPT ![i].lateStart = @ \/ o[i].destroyAt # ""]

\* An assignment of paused, as observed: the time of a resume that follows a
\* pause is kept until the next update
ResumeSeen(i, v) ==
    IF v THEN -1 ELSE IF app[i]._paused THEN now ELSE obs[i].resumedAt

\* get paused(), lines 268-271
Paused(i) == app[i]._paused

\* A setter that does nothing when the value does not change
CallPausedGuarded(base, i, v, o) ==
    IF app[i]._paused = v
    THEN /\ stack' = Append(base, Frame("paused", i, "done", 0, v))
         /\ obs' = [o EXCEPT ![i].assigned = TRUE]
         /\ UNCHANGED <<app, trace>>
    ELSE /\ app' = [app EXCEPT ![i]._paused = v]
         /\ trace' = Trigger(i, Ev("pause", B(v)))
         /\ stack' = Append(base, Frame("paused", i, "pause", 0, v))
         /\ obs' = [o EXCEPT ![i].assigned = TRUE, ![i].resumedAt = ResumeSeen(i, v)]

\* set paused(value), lines 272-276, and internalPaused up to its first
\* trigger, line 286; `base` is the stack the call is made from, `o` the
\* observations so far
CallPaused(base, i, v, o) ==
    /\ app' = [app EXCEPT ![i]._paused = v]
    /\ trace' = Trigger(i, Ev("pause", B(v)))
    /\ stack' = Append(base, Frame("paused", i, "pause", 0, v))
    /\ obs' = [o EXCEPT ![i].assigned = TRUE, ![i].resumedAt = ResumeSeen(i, v)]

\* app.paused = v, called by the user
SetPaused(i, v) ==
    /\ Idle
    /\ Exists(i)
    /\ v \/ Cardinality(timers) < MaxPending
    /\ CallPaused(stack, i, v, obs)
    /\ UNCHANGED <<assets, debug, _instance, _plugins, made, displays, timers, now, nested, result>>

\* internalPaused, line 287: the second event
PausedEvent ==
    /\ AtTop("paused", "pause")
    /\ trace' = Trigger(Top.i, Ev(IF Top.v THEN "paused" ELSE "resumed", B(Top.v)))
    /\ stack' = Goto("paused", Len(trace) + 1)
    /\ UNCHANGED <<assets, debug, _instance, _plugins, made, app, obs, displays, timers, now, nested, result>>

\* internalPaused, lines 289-311: stop or start the scheduler
PausedScheduler ==
    /\ AtTop("paused", "paused")
    /\ LET i == Top.i
           a == app[i] IN
       IF Top.v
       THEN IF a._tickId # NoTick
            THEN /\ timers' = Cancelled(Kind(a), a._tickId)
                 /\ app' = [app EXCEPT ![i]._tickId = NoTick]
                 /\ trace' = Append(trace, Ev("cancel", a._tickId))
                 /\ UNCHANGED obs
            ELSE UNCHANGED <<timers, app, trace, obs>>
       ELSE IF a._tickId = NoTick /\ a._tickCallback
            THEN /\ timers' = Requested(i, Kind(a))
                 /\ app' = [app EXCEPT ![i]._lastFrameTime = now,
                                       ![i]._tickId = FreshId]
                 /\ trace' = Append(trace, Ev("request", FreshId))
                 /\ obs' = RequestSeen(obs, i)
            ELSE UNCHANGED <<timers, app, trace, obs>>
    /\ stack' = Goto("done", Top.k)
    /\ UNCHANGED <<assets, debug, _instance, _plugins, made, displays, now, nested, result>>

\* options.raf = v: the options object stores it and notifies the 'raf'
\* listener that _preInit subscribes, lines 187-189
SetRaf(i, v) ==
    /\ Idle
    /\ Exists(i)
    /\ ~app[i].options.isNull
    /\ app' = [app EXCEPT ![i].options.raf = v,
                          ![i]._useRAF = IF app[i].options.listening THEN v ELSE @]
    /\ result' = "ok"
    /\ UNCHANGED <<assets, debug, _instance, _plugins, made, obs, displays, timers, now, stack, trace, nested>>

\* (1000 / value) | 0, line 193, for an integer value: the quotient truncated
\* towards zero, and 0 for the infinite quotient of value 0
MsPerFrame(value) ==
    IF value = 0 THEN 0
    ELSE IF value > 0 THEN 1000 \div value
    ELSE -(1000 \div (-value))

\* options.fps = value: the options object notifies the 'fps' listener that
\* _preInit subscribes, lines 191-194
SetFps(i, value) ==
    /\ Idle
    /\ Exists(i)
    /\ ~app[i].options.isNull
    /\ app' = [app EXCEPT ![i]._msPerFrame =
                   IF app[i].options.listening THEN MsPerFrame(value) ELSE @]
    /\ result' = "ok"
    /\ UNCHANGED <<assets, debug, _instance, _plugins, made, obs, displays, timers, now, stack, trace, nested>>

Max(x, y) == IF x >= y THEN x ELSE y

\* requestTimeout, lines 324-329: the delay handed to setTimeout
TimeToCall(msPerFrame, timeInFrame) ==
    IF timeInFrame # 0 THEN Max(0, msPerFrame - timeInFrame) ELSE msPerFrame

\* this.requestTimeout(callback, timeInFrame), lines 322-332: the request
\* is recorded with the frame time, the time spent and the delay asked for
RequestTimeout(i, timeInFrame) ==
    /\ Idle
    /\ Exists(i)
    /\ timers' = {[kind |-> "timeout", id |-> FreshId, app |-> i,
                    ms |-> app[i]._msPerFrame, spent |-> timeInFrame,
                    delay |-> TimeToCall(app[i]._msPerFrame, timeInFrame)]}
    /\ result' = "ok"
    /\ UNCHANGED <<assets, debug, _instance, _plugins, made, app, obs, displays, now, stack, trace, nested>>

\* time passes
Advance ==
    /\ Idle
    /\ now < MaxTime
    /\ now' = now + 1
    /\ UNCHANGED <<assets, debug, _instance, _plugins, made, app, obs, displays, timers, stack, trace,
                   nested, result>>

\* _tick without its paused check
TickUnguarded(t) ==
    /\ Idle
    /\ t \in timers
    /\ timers' = timers \ {t}
    /\ LET i == t.app IN
       /\ app' = [app EXCEPT ![i]._lastFrameTime = now]
       /\ trace' = Trigger(i, Ev("update", now - app[i]._lastFrameTime))
       /\ stack' = <<Frame("tick", i, "update", now - app[i]._lastFrameTime, FALSE)>>
       /\ obs' = [obs EXCEPT ![i].resumedAt = -1]
    /\ result' = "ok"
    /\ UNCHANGED <<assets, debug, _instance, _plugins, made, displays, now, nested>>

\* _tick that does not store the sampled time as the new baseline
TickNoBaseline(t) ==
    /\ Idle
    /\ t \in timers
    /\ timers' = timers \ {t}
    /\ LET i == t.app IN
       IF app[i]._paused
       THEN /\ app' = [app EXCEPT ![i]._tickId = NoTick]
            /\ UNCHANGED <<stack, trace, obs>>
       ELSE /\ app' = app
            /\ trace' = Trigger(i, Ev("update", now - app[i]._lastFrameTime))
            /\ stack' = <<Frame("tick", i, "update", now - app[i]._lastFrameTime, FALSE)>>
            /\ obs' = [obs EXCEPT ![i].resumedAt = -1]
    /\ result' = "ok"
    /\ UNCHANGED <<assets, debug, _instance, _plugins, made, displays, now, nested>>

\* _tick, lines 412-425: a pending request fires
Tick(t) ==
    /\ Idle
    /\ t \in timers
    /\ timers' = timers \ {t}
    /\ LET i == t.app IN
       IF app[i]._paused
       THEN /\ app' = [app EXCEPT ![i]._tickId = NoTick]
            /\ UNCHANGED <<stack, trace, obs>>
       ELSE /\ app' = [app EXCEPT ![i]._lastFrameTime = now]
            /\ trace' = Trigger(i, Ev("update", now - app[i]._lastFrameTime))
            /\ stack' = <<Frame("tick", i, "update", now - app[i]._lastFrameTime, FALSE)>>
            /\ obs' = [obs EXCEPT ![i].resumedAt = -1]
    /\ result' = "ok"
    /\ UNCHANGED <<assets, debug, _instance, _plugins, made, displays, now, nested>>

\* _tick without its `if (this._displays)` test
TickRenderUnguarded ==
    /\ \/ AtTop("tick", "update")
       \/ AtTop("tick", "render")
    /\ UNCHANGED <<assets, debug>>
    /\ IF app[Top.i]._displays = NullList
       THEN /\ Uncaught
            /\ UNCHANGED <<_instance, _plugins, made, app, obs, displays, timers, now>>
       ELSE /\ Top.k < Len(app[Top.i]._displays)
            /\ trace' = Append(trace, RenderEv(app[Top.i]._displays[Top.k + 1], Top.n))
            /\ stack' = Goto("render", Top.k + 1)
            /\ UNCHANGED <<_instance, _plugins, made, app, obs, displays, timers, now,
                           nested, result>>

\* _tick, lines 429-435: render the displays in order
TickRender ==
    /\ \/ AtTop("tick", "update") /\ app[Top.i]._displays # NullList
       \/ AtTop("tick", "render")
    /\ UNCHANGED <<assets, debug>>
    /\ IF app[Top.i]._displays = NullList
       THEN \* this._displays.length on null: TypeError
            /\ Uncaught
            /\ UNCHANGED <<_instance, _plugins, made, app, obs, displays, timers, now>>
       ELSE /\ Top.k < Len(app[Top.i]._displays)
            /\ trace' = Append(trace, RenderEv(app[Top.i]._displays[Top.k + 1], Top.n))
            /\ stack' = Goto("render", Top.k + 1)
            /\ UNCHANGED <<_instance, _plugins, made, app, obs, displays, timers, now,
                           nested, result>>

\* _tick, lines 439-444: request the next tick
TickSchedule ==
    /\ \/ AtTop("tick", "update")
       \/ AtTop("tick", "render")
    /\ \/ AtTop("tick", "update") /\ app[Top.i]._displays = NullList
       \/ app[Top.i]._displays # NullList /\ Top.k >= Len(app[Top.i]._displays)
    /\ LET i == Top.i
           a == app[i] IN
       IF a._tickCallback
       THEN /\ timers' = Requested(i, Kind(a))
            /\ app' = [app EXCEPT ![i]._tickId = FreshId]
            /\ trace' = Append(trace, Ev("request", FreshId))
            /\ obs' = RequestSeen(obs, i)
       ELSE UNCHANGED <<timers, app, trace, obs>>
    /\ stack' = Goto("done", Top.k)
    /\ UNCHANGED <<assets, debug, _instance, _plugins, made, displays, now, nested, result>>

\* ------------------------------------------------------------ asset sizes
Sorted(s) == \A x, y \in 1..Len(s) : x < y => s[x].maxSize <= s[y].maxSize

\* The list left in the order it was pushed
Unsorted(s) == {s}

\* this._sizes.sort(by maxSize), lines 72-75: the list reordered so that
\* maxSize ascends; the order of sizes with equal maxSize is up to the engine
SortResults(s) ==
    {t \in {[x \in 1..Len(s) |-> s[q[x]]] : q \in Permutations(1..Len(s))} : Sorted(t)}

\* define(id, maxSize, scale, fallback), lines 59-76
Define(id, maxSize, fallback) ==
    /\ Idle
    /\ Len(assets._sizes) < MaxDefines
    /\ LET size == [id |-> id, maxSize |-> maxSize, scale |-> 1, fallback |-> fallback] IN
       \E t \in SortResults(Append(assets._sizes, size)) :
           assets' = [assets EXCEPT !._sizesMap[id] = size,
                                    !._sizes = t,
                                    !.call = [NoCall EXCEPT !.op = "define"]]
    /\ UNCHANGED <<_instance, _plugins, made, app, obs, displays, timers, now, stack,
                   trace, nested, result, debug>>

\* reset(), lines 44-48
ResetSizes ==
    /\ Idle
    /\ assets._sizes # <<>>
    /\ assets' = [assets EXCEPT !._sizes = <<>>,
                                !._sizesMap = [id \in SizeIds |-> NullSize],
                                !.call = [NoCall EXCEPT !.op = "reset"]]
    /\ UNCHANGED <<_instance, _plugins, made, app, obs, displays, timers, now, stack,
                   trace, nested, result, debug>>

Min(x, y) == IF x <= y THEN x ELSE y

\* refresh, lines 154-164: the loop from the largest size down, at index i
\* with `size` found so far.  sizes[i].maxSize / devicePixelRatio > minSize
\* is computed as maxSize > minSize * devicePixelRatio (the ratio is positive)
RECURSIVE Scan(_, _, _, _, _)
Scan(sizes, i, size, minSize, dpr) ==
    IF i = 0 THEN size
    ELSE IF sizes[i].maxSize > minSize * dpr
         THEN Scan(sizes, i - 1, sizes[i], minSize, dpr)
         ELSE size

\* refresh(width, height), lines 146-166, on a device with pixel ratio dpr
Refresh(width, height, dpr) ==
    /\ Idle
    /\ assets' = [assets EXCEPT
            !._preferredSize = Scan(assets._sizes, Len(assets._sizes), NullSize,
                                    Min(width, height), dpr),
            !.call = [NoCall EXCEPT !.op = "refresh", !.minSize = Min(width, height),
                                    !.dpr = dpr]]
    /\ UNCHANGED <<_instance, _plugins, made, app, obs, displays, timers, now, stack,
                   trace, nested, result, debug>>

\* size, lines 118-128: the first fallback from index i on that the
\* supported map does not map to false, as this._sizesMap has it; `size`
\* when there is none
RECURSIVE Alternative(_, _, _, _)
Alternative(fallback, i, supported, size) ==
    IF i > Len(fallback) THEN size
    ELSE IF supported[fallback[i]] # "false"
         THEN assets._sizesMap[fallback[i]]
         ELSE Alternative(fallback, i + 1, supported, size)

\* size(supported), lines 109-137: the size object it ends up with
Chosen(hasSupported, supported) ==
    LET size == assets._preferredSize IN
    IF hasSupported /\ supported[size.id] # "true"
    THEN Alternative(size.fallback, 1, supported, size)
    ELSE size

\* size(supported), lines 109-137, called with or without a supported map
Size(hasSupported, supported) ==
    /\ Idle
    /\ LET outcome ==
               IF assets._preferredSize = NullSize
               THEN \* size.fallback on null: TypeError
                    [returned |-> NullSize, threw |-> "TypeError"]
               ELSE IF Chosen(hasSupported, supported) = NullSize
               THEN [returned |-> NullSize, threw |-> "Asset does not support any valid size"]
               ELSE [returned |-> Chosen(hasSupported, supported), threw |-> ""] IN
       /\ assets' = [assets EXCEPT !.call = [NoCall EXCEPT !.op = "size",
                                                          !.hasSupported = hasSupported,
                                                          !.supported = supported,
                                                          !.returned = outcome.returned,
                                                          !.threw = outcome.threw]]
       /\ result' = IF outcome.threw = "" THEN "ok" ELSE "throw"
    /\ UNCHANGED <<_instance, _plugins, made, app, obs, displays, timers, now, stack,
                   trace, nested, debug>>

\* ----------------------------------------------------------- remote debug
\* The level arguments of remoteLog; "" is a call without a level
Levels == {"", "ERROR"}

\* new WebSocket(url): connecting, with the handlers connect attaches to it.
\* `sent` lists what was passed to send while the socket was open; `early`
\* and `late` list what was handed to remoteLog while this socket was
\* Debug._socket, before it opened and while it was open.
NewSocket ==
    [state |-> "connecting", handlers |-> TRUE, opened |-> FALSE, sent |-> <<>>,
     early |-> <<>>, late |-> <<>>]

\* the session message, lines 226-230
Session == [level |-> "session", message |-> 0]

\* remoteLog, lines 310-311: the default level
Level(level) == IF level = "" THEN "GENERAL" ELSE level

\* Debug.connect(host), lines 176-198; `fails` when there is no WebSocket
\* in the window or its constructor throws: connect returns false
Connect(fails) ==
    /\ Idle
    /\ IF fails
       THEN UNCHANGED debug
       ELSE /\ Len(debug.sockets) < MaxSockets
            /\ debug' = [debug EXCEPT !.sockets = Append(@, NewSocket),
                                      !._socket = Len(debug.sockets) + 1,
                                      !._messageQueue = [isNull |-> FALSE, items |-> <<>>],
                                      !._isConnected = TRUE]
    /\ result' = "ok"
    /\ UNCHANGED <<_instance, _plugins, made, app, obs, displays, timers, now, stack,
                   trace, nested, assets>>

\* socket.send(data) on socket t for each element of msgs: an open socket
\* transmits, a closed one drops the data
Send(sockets, t, msgs) ==
    IF sockets[t].state = "open"
    THEN [sockets EXCEPT ![t].sent = @ \o msgs]
    ELSE sockets

\* onConnect that leaves the queue in place
OnConnectKeepQueue(d) ==
    [d EXCEPT !._messageObj = "object",
              !.sockets = Send(@, d._socket, <<Session>> \o d._messageQueue.items)]

\* onConnect, lines 221-240: the session message, then the queued messages
\* in order, all on Debug._socket; then the queue is dropped
OnConnect(d) ==
    [d EXCEPT !._messageObj = "object",
              !.sockets = Send(@, d._socket, <<Session>> \o d._messageQueue.items),
              !._messageQueue = NullQueue]

\* the open event of socket s; its onopen handler, if still attached, runs
SocketOpen(s) ==
    /\ Idle
    /\ s \in DOMAIN debug.sockets
    /\ debug.sockets[s].state = "connecting"
    /\ LET d == [debug EXCEPT !.sockets[s].state = "open", !.sockets[s].opened = TRUE] IN
       IF ~d.sockets[s].handlers
       THEN debug' = d /\ result' = "ok"
       ELSE IF d._socket = NULL \/ d._messageQueue.isNull
       THEN \* Debug._socket.send / _messageQueue.length on null: TypeError
            debug' = [d EXCEPT !._messageObj = "object"] /\ result' = "throw"
       ELSE IF d.sockets[d._socket].state = "connecting"
       THEN \* send on a socket that is still connecting: InvalidStateError
            debug' = [d EXCEPT !._messageObj = "object"] /\ result' = "throw"
       ELSE debug' = OnConnect(d) /\ result' = "ok"
    /\ UNCHANGED <<_instance, _plugins, made, app, obs, displays, timers, now, stack,
                   trace, nested, assets>>

\* onClose, lines 270-282: the handlers come off Debug._socket and the
\* statics are cleared
OnClose(d) ==
    [d EXCEPT !._isConnected = FALSE,
              !.sockets[d._socket].handlers = FALSE,
              !._socket = NULL,
              !._messageObj = "null",
              !._messageQueue = NullQueue]

\* the close or error event of socket s; its onclose / onerror handler, if
\* still attached, runs
SocketClose(s) ==
    /\ Idle
    /\ s \in DOMAIN debug.sockets
    /\ debug.sockets[s].state # "closed"
    /\ LET d == [debug EXCEPT !.sockets[s].state = "closed"] IN
       IF ~d.sockets[s].handlers
       THEN debug' = d /\ result' = "ok"
       ELSE IF d._socket = NULL
       THEN \* s.onopen = null on null: TypeError
            debug' = [d EXCEPT !._isConnected = FALSE] /\ result' = "throw"
       ELSE debug' = OnClose(d) /\ result' = "ok"
    /\ UNCHANGED <<_instance, _plugins, made, app, obs, displays, timers, now, stack,
                   trace, nested, assets>>

\* Debug.disconnect(), lines 206-213
Disconnect ==
    /\ Idle
    /\ IF debug._isConnected
       THEN IF debug._socket = NULL
            THEN \* Debug._socket.close() on null: TypeError
                 UNCHANGED debug /\ result' = "throw"
            ELSE /\ debug' = OnClose([debug EXCEPT !.sockets[debug._socket].state = "closed"])
                 /\ result' = "ok"
       ELSE UNCHANGED debug /\ result' = "ok"
    /\ UNCHANGED <<_instance, _plugins, made, app, obs, displays, timers, now, stack,
                   trace, nested, assets>>

\* What was handed to remoteLog, noted on the socket Debug holds
Noted(d, msg) ==
    IF d._socket = NULL THEN d
    ELSE IF d.sockets[d._socket].state = "connecting"
    THEN [d EXCEPT !.sockets[d._socket].early = Append(@, msg)]
    ELSE IF d.sockets[d._socket].state = "open"
    THEN [d EXCEPT !.sockets[d._socket].late = Append(@, msg)]
    ELSE d

\* Debug.remoteLog(message, level), lines 308-326
RemoteLog(level) ==
    /\ Idle
    /\ debug.logged < MaxMessages
    /\ LET msg == [level |-> Level(level), message |-> debug.logged + 1]
           d == Noted([debug EXCEPT !.logged = @ + 1], msg) IN
       IF ~d._messageQueue.isNull
       THEN /\ debug' = [d EXCEPT !._messageQueue.items = Append(@, msg)]
            /\ result' = "ok"
       ELSE IF d._messageObj = "null" \/ d._socket = NULL
       THEN \* Debug._messageObj.level on null: TypeError
            /\ debug' = d
            /\ result' = "throw"
       ELSE /\ debug' = [d EXCEPT !.sockets = Send(@, d._socket, <<msg>>)]
            /\ result' = "ok"
    /\ UNCHANGED <<_instance, _plugins, made, app, obs, displays, timers, now, stack,
                   trace, nested, assets>>

\* ---------------------------------------------------------- delayed calls
\* The delays timers are created with (milliseconds or frames) and the
\* elapsed times update is called with
Delays == {0, 3, 100}
Elapsed == {0, 40, 250}

\* new DelayedCall(callback, delay, repeat, autoDestroy, useFrames): the
\* countdown starts at the delay.  `fired` counts the calls of the callback
\* and `args` lists the elapsed times of the update calls received.
NewDelayedCall(delay, repeat, autoDestroy, useFrames) ==
    [kind |-> "delayed", id |-> 0, app |-> NULL,
     delay |-> delay, repeat |-> repeat, autoDestroy |-> autoDestroy,
     useFrames |-> useFrames, timer |-> delay, active |-> TRUE, callback |-> TRUE,
     fired |-> 0, args |-> <<>>]

DelayedCalls == {c \in timers : c.kind = "delayed"}

\* setTimeout(callback, delay, useFrames, autoDestroy), lines 456-459
SetTimeout(i, delay, useFrames, autoDestroy) ==
    /\ Idle
    /\ Exists(i)
    /\ timers = {}
    /\ timers' = {NewDelayedCall(delay, FALSE, autoDestroy, useFrames)}
    /\ result' = "ok"
    /\ UNCHANGED <<assets, debug, _instance, _plugins, made, app, obs, displays, now, stack, trace, nested>>

\* setInterval(callback, delay, useFrames), lines 470-473
SetInterval(i, delay, useFrames) ==
    /\ Idle
    /\ Exists(i)
    /\ timers = {}
    /\ timers' = {NewDelayedCall(delay, TRUE, FALSE, useFrames)}
    /\ result' = "ok"
    /\ UNCHANGED <<assets, debug, _instance, _plugins, made, app, obs, displays, now, stack, trace, nested>>

\* A countdown in milliseconds whatever the unit of the timer
DecrementElapsed(c, elapsed) == elapsed

\* What one update takes off the countdown: one frame, or the elapsed time
Decrement(c, elapsed) == IF c.useFrames THEN 1 ELSE elapsed

\* A repeating timer restarted at its full delay
ResetNoCarry(c, t) == c.delay

\* The countdown of a repeating timer after it fired at t <= 0: the
\* overshoot is carried over
Reset(c, t) == t + c.delay

\* DelayedCall.update(elapsed)
DelayedCallUpdate(c, elapsed) ==
    LET t == c.timer - Decrement(c, elapsed)
        d == [c EXCEPT !.args = Append(@, elapsed)] IN
    IF ~c.active THEN d
    ELSE IF t > 0 THEN [d EXCEPT !.timer = t]
    ELSE IF c.repeat THEN [d EXCEPT !.timer = Reset(c, t), !.fired = @ + 1]
    ELSE [d EXCEPT !.timer = t, !.fired = @ + 1, !.active = FALSE,
                   !.callback = ~c.autoDestroy]

\* the scheduler's update reaches a delayed call
Update(elapsed) ==
    /\ Idle
    /\ \E c \in DelayedCalls :
          /\ Len(c.args) < MaxUpdates
          /\ timers' = (timers \ {c}) \cup {DelayedCallUpdate(c, elapsed)}
    /\ result' = "ok"
    /\ UNCHANGED <<assets, debug, _instance, _plugins, made, app, obs, displays, now, stack, trace, nested>>

\* ------------------------------------------------------------------ boot
\* _preInit, lines 206-213: the preload hooks, in plugin order
PreloadTasks == SelectSeq(SetupOrder(Len(_plugins)), LAMBDA p : _plugins[p])

\* series(tasks, ready) with a non-empty list starts the first task; with an
\* empty list it defers ready
SeriesStart(a, tasks) ==
    IF tasks = <<>>
    THEN [a EXCEPT !.boot = "ready", !.tasks = tasks]
    ELSE [a EXCEPT !.boot = "loading", !.tasks = tasks, !.task = 1]

\* The preload hooks all invoked at once instead of queued
RunTasksEager(a, tasks) ==
    IF tasks = <<>>
    THEN [a EXCEPT !.boot = "ready", !.tasks = tasks]
    ELSE [a EXCEPT !.boot = "loading", !.tasks = tasks, !.task = Len(tasks)]

\* _preInit, line 215: the tasks are handed to series
RunTasks(a, tasks) == SeriesStart(a, tasks)

\* The preload hooks started so far
Started(a) == SubSeq(a.tasks, 1, a.task)

\* _preInit, lines 180-216: the timeout set by the constructor fires
PreInit(i) ==
    /\ Idle
    /\ Exists(i)
    /\ app[i].boot = "preInit"
    /\ IF Destroyed(i)
       THEN /\ app' = [app EXCEPT ![i].boot = "done"]
            /\ result' = "ok"
            /\ UNCHANGED <<obs, displays>>
       ELSE LET a == [app[i] EXCEPT !._useRAF = app[i].options.raf,
                                    !.options.listening = TRUE]
                late == obs[i].destroyAt # "" IN
            IF a.options.canvas /\ a._displaysMap[InitialCanvasId] # NULL
            THEN \* addDisplay throws: the callback ends there
                 /\ app' = [app EXCEPT ![i] = [a EXCEPT !.boot = "failed"]]
                 /\ result' = "throw"
                 /\ UNCHANGED <<obs, displays>>
            ELSE /\ a.options.canvas => Len(displays) < MaxDisplays
                 /\ displays' = IF a.options.canvas
                                THEN Append(displays, NewDisplay(i, InitialCanvasId))
                                ELSE displays
                 /\ LET b == IF a.options.canvas
                             THEN Added(a, InitialCanvasId, Len(displays) + 1)
                             ELSE a
                        c == RunTasks(b, PreloadTasks) IN
                    /\ app' = [app EXCEPT ![i] = c]
                    /\ obs' = [obs EXCEPT ![i].preload = Started(c),
                                          ![i].latePreload = late /\ Started(c) # <<>>,
                                          ![i].lateDisplay = late /\ a.options.canvas]
                 /\ result' = "ok"
    /\ UNCHANGED <<assets, debug, _instance, _plugins, made, timers, now, stack, trace, nested>>

\* _doInit without its destroyed check
CallDoInitUnchecked(i, o) ==
    /\ trace' = Trigger(i, Ev("beforeInit", 0))
    /\ obs' = [o EXCEPT ![i].inits = Append(@, "beforeInit"),
                        ![i].lateInit = o[i].destroyAt # ""]
    /\ stack' = <<Frame("doInit", i, "beforeInit", 0, FALSE)>>

\* _doInit, lines 224-230, called by series as its ready callback; `o` are
\* the observations so far
CallDoInit(i, o) ==
    IF Destroyed(i)
    THEN /\ obs' = o
         /\ UNCHANGED <<stack, trace>>
    ELSE /\ trace' = Trigger(i, Ev("beforeInit", 0))
         /\ obs' = [o EXCEPT ![i].inits = Append(@, "beforeInit"),
                             ![i].lateInit = o[i].destroyAt # ""]
         /\ stack' = <<Frame("doInit", i, "beforeInit", 0, FALSE)>>

\* series: the running preload task signals completion; the next one starts,
\* or ready is called after the last
PreloadDone(i) ==
    /\ Idle
    /\ Exists(i)
    /\ app[i].boot = "loading"
    /\ LET o == [obs EXCEPT ![i].completed = @ + 1] IN
       IF app[i].task < Len(app[i].tasks)
       THEN /\ app' = [app EXCEPT ![i].task = @ + 1]
            /\ obs' = [o EXCEPT ![i].preload = Started(app'[i]),
                                ![i].latePreload = @ \/ o[i].destroyAt # ""]
            /\ UNCHANGED <<stack, trace>>
       ELSE /\ app' = [app EXCEPT ![i].boot = "done"]
            /\ CallDoInit(i, o)
    /\ result' = "ok"
    /\ UNCHANGED <<assets, debug, _instance, _plugins, made, displays, timers, now, nested>>

\* series with no task: the deferred ready callback fires
SeriesReady(i) ==
    /\ Idle
    /\ Exists(i)
    /\ app[i].boot = "ready"
    /\ app' = [app EXCEPT ![i].boot = "done"]
    /\ CallDoInit(i, obs)
    /\ result' = "ok"
    /\ UNCHANGED <<assets, debug, _instance, _plugins, made, displays, timers, now, nested>>

\* _doInit without the assignment of paused
DoInitSkipUnpause ==
    /\ AtTop("doInit", "beforeInit")
    /\ stack' = Goto("paused=", 0)
    /\ UNCHANGED <<assets, debug, _instance, _plugins, made, app, obs, displays, timers, now, trace,
                   nested, result>>

\* _doInit, line 233: this.paused = false
DoInitUnpause ==
    /\ AtTop("doInit", "beforeInit")
    /\ CallPaused(Goto("paused=", 0), Top.i, FALSE, obs)
    /\ UNCHANGED <<assets, debug, _instance, _plugins, made, displays, timers, now, nested, result>>

\* _doInit, line 236: this.trigger('init')
DoInitEvent ==
    /\ AtTop("doInit", "paused=")
    /\ trace' = Trigger(Top.i, Ev("init", 0))
    /\ obs' = [obs EXCEPT ![Top.i].inits = Append(@, "init")]
    /\ stack' = Goto("init", 0)
    /\ UNCHANGED <<assets, debug, _instance, _plugins, made, app, displays, timers, now, nested, result>>

\* _doInit, line 239: the user's init callback, if one was given
DoInitUser ==
    /\ AtTop("doInit", "init")
    /\ trace' = IF app[Top.i].init THEN Append(trace, Ev("userInit", 0)) ELSE trace
    /\ obs' = [obs EXCEPT ![Top.i].inits = IF app[Top.i].init THEN Append(@, "userInit") ELSE @]
    /\ stack' = Goto("userInit", 0)
    /\ UNCHANGED <<assets, debug, _instance, _plugins, made, app, displays, timers, now, nested, result>>

\* _doInit, line 241: this.trigger('afterInit')
DoInitAfter ==
    /\ AtTop("doInit", "userInit")
    /\ trace' = Trigger(Top.i, Ev("afterInit", 0))
    /\ obs' = [obs EXCEPT ![Top.i].inits = Append(@, "afterInit")]
    /\ stack' = Goto("done", 0)
    /\ UNCHANGED <<assets, debug, _instance, _plugins, made, app, displays, timers, now, nested, result>>

\* --------------------------------------------------------------- destroy
\* destroy without its destroyed check
CallDestroyUnguarded(base, i) ==
    CallPaused(Append(base, Frame("destroy", i, "paused=", 0, FALSE)), i, TRUE,
               [obs EXCEPT ![i].destroyAt = IF @ = "" THEN app[i].boot ELSE @,
                           ![i].again = Destroyed(i)])

\* destroy(), lines 480-485: the destroyed check, then this.paused = true
CallDestroy(base, i) ==
    IF Destroyed(i)
    THEN /\ obs' = [obs EXCEPT ![i].again = TRUE]
         /\ UNCHANGED <<app, stack, trace>>
    ELSE CallPaused(Append(base, Frame("destroy", i, "paused=", 0, FALSE)), i, TRUE,
                    [obs EXCEPT ![i].destroyAt = IF @ = "" THEN app[i].boot ELSE @])

\* app.destroy(), called by the user
Destroy(i) ==
    /\ Idle
    /\ Exists(i)
    /\ CallDestroy(stack, i)
    /\ result' = "ok"
    /\ UNCHANGED <<assets, debug, _instance, _plugins, made, displays, timers, now, nested>>

\* destroy releasing the singleton before the teardown hooks run
DestroyEventReleasing ==
    /\ AtTop("destroy", "paused=")
    /\ trace' = Trigger(Top.i, Ev("destroy", 0))
    /\ _instance' = NULL
    /\ stack' = Append(Front(stack), [Top EXCEPT !.pc = "teardown", !.k = 0, !.n = Len(_plugins)])
    /\ UNCHANGED <<assets, debug, _plugins, made, app, obs, displays, timers, now, nested, result>>

\* destroy, lines 486-489: trigger('destroy'), then the plugin list is copied
DestroyEvent ==
    /\ AtTop("destroy", "paused=")
    /\ trace' = Trigger(Top.i, Ev("destroy", 0))
    /\ stack' = Append(Front(stack), [Top EXCEPT !.pc = "teardown", !.k = 0, !.n = Len(_plugins)])
    /\ UNCHANGED <<assets, debug, _instance, _plugins, made, app, obs, displays, timers, now, nested, result>>

\* The plugin list walked without being reversed
ForwardOrder(n) == [x \in 1..n |-> x]

\* Application._plugins.slice().reverse(), line 489
TeardownOrder(n) == Reverse(SetupOrder(n))

\* destroy, lines 491-493: plugin.teardown.call(this)
DestroyTeardown ==
    /\ AtTop("destroy", "teardown")
    /\ Top.k < Top.n
    /\ LET p == TeardownOrder(Top.n)[Top.k + 1] IN
       /\ obs' = [obs EXCEPT ![Top.i].teardown = Append(@, p)]
       /\ trace' = Append(trace, Ev("teardown", p))
    /\ stack' = Goto("teardown", Top.k + 1)
    /\ UNCHANGED <<assets, debug, _instance, _plugins, made, app, displays, timers, now, nested, result>>

\* destroy, lines 498-508: the fields released, and super.destroy() marks
\* the dispatcher destroyed
Released(a) ==
    [a EXCEPT !._displays = NullList,
              !._displaysMap = NullMap,
              !._tickCallback = FALSE,
              !.display = NULL,
              !.options = [raf |-> FALSE, canvas |-> FALSE, listening |-> FALSE, isNull |-> TRUE],
              !.destroyed = TRUE]

\* destroy, lines 495-508: the displays, the singleton, the dispatcher
DestroyFinish ==
    /\ AtTop("destroy", "teardown")
    /\ Top.k >= Top.n
    /\ IF app[Top.i]._displays = NullList
       THEN \* this._displays.forEach on null: TypeError
            /\ Uncaught
            /\ UNCHANGED <<_instance, app, displays>>
       ELSE /\ displays' = [h \in DOMAIN displays |->
                             IF h \in Range(app[Top.i]._displays)
                             THEN [displays[h] EXCEPT !.destroyed = @ + 1]
                             ELSE displays[h]]
            /\ _instance' = NULL
            /\ app' = [app EXCEPT ![Top.i] = Released(@)]
            /\ trace' = Append(trace, Ev("released", 0))
            /\ stack' = Goto("done", Top.k)
            /\ UNCHANGED <<nested, result>>
    /\ UNCHANGED <<assets, debug, _plugins, made, obs, timers, now>>

\* ------------------------------------------------- calls made by handlers
\* The places where listeners, plugin hooks and display code run
HandlerPoint ==
    /\ stack # <<>>
    /\ \/ Top.op = "tick" /\ Top.pc \in {"update", "render"}
       \/ Top.op = "paused" /\ Top.pc \in {"pause", "paused"}
       \/ Top.op = "destroy" /\ Top.pc = "teardown"
    /\ nested < MaxNested

\* a handler assigns app.paused
HandlerSetPaused(v) ==
    /\ HandlerPoint
    /\ v \/ Cardinality(timers) < MaxPending
    /\ nested' = nested + 1
    /\ CallPaused(stack, Top.i, v, obs)
    /\ UNCHANGED <<assets, debug, _instance, _plugins, made, displays, timers, now, result>>

\* a handler calls app.destroy()
HandlerDestroy ==
    /\ HandlerPoint
    /\ nested' = nested + 1
    /\ CallDestroy(stack, Top.i)
    /\ UNCHANGED <<assets, debug, _instance, _plugins, made, displays, timers, now, result>>

\* ------------------------------------------------------------------ spec
\* The steps the program takes by itself: the rest of a call in progress,
\* and the callbacks of timers and preload tasks
Steps ==
    \/ Return
    \/ ConstructSetup
    \/ ConstructEnd
    \/ PausedEvent
    \/ PausedScheduler
    \/ \E t \in timers : Tick(t)
    \/ TickRender
    \/ TickSchedule
    \/ \E i \in Apps : PreInit(i)
    \/ \E i \in Apps : PreloadDone(i)
    \/ \E i \in Apps : SeriesReady(i)
    \/ DoInitUnpause
    \/ DoInitEvent
    \/ DoInitUser
    \/ DoInitAfter
    \/ DestroyEvent
    \/ DestroyTeardown
    \/ DestroyFinish

\* One Application from construction to destruction: plugins are registered,
\* the user pauses, resumes and destroys it
Next ==
    \/ Steps
    \/ \E hasPreload \in BOOLEAN : RegisterPlugin(hasPreload)
    \/ \E hasInit \in BOOLEAN, canvas \in BOOLEAN : made = 0 /\ Construct(hasInit, canvas)
    \/ \E i \in Apps, v \in BOOLEAN : SetPaused(i, v)
    \/ \E i \in Apps : Destroy(i)
    \/ Advance

Spec == Init /\ [][Next]_vars

\* Applications constructed one after the other, the plugins registered
\* before the first
NextSingleton ==
    \/ Steps
    \/ \E hasPreload \in BOOLEAN : made = 0 /\ RegisterPlugin(hasPreload)
    \/ \E canvas \in BOOLEAN : Construct(FALSE, canvas)
    \/ \E i \in Apps : Destroy(i)

SpecSingleton == Init /\ [][NextSingleton]_vars

\* One Application with displays added and removed at any time
NextDisplays ==
    \/ Steps
    \/ \E hasPreload \in BOOLEAN : RegisterPlugin(hasPreload)
    \/ \E hasInit \in BOOLEAN, canvas \in BOOLEAN : made = 0 /\ Construct(hasInit, canvas)
    \/ \E i \in Apps : Destroy(i)
    \/ \E i \in Apps, id \in DisplayIds : AddDisplay(i, id)
    \/ \E i \in Apps, id \in DisplayIds : RemoveDisplay(i, id)

SpecDisplays == Init /\ [][NextDisplays]_vars

\* The frame scheduler of one Application without plugins: the user and the
\* handlers of its events pause and resume it and switch the raf option
NextScheduler ==
    \/ Return
    \/ made = 0 /\ Construct(FALSE, FALSE)
    \/ ConstructEnd
    \/ \E i \in Apps : PreInit(i)
    \/ \E i \in Apps : SeriesReady(i)
    \/ DoInitUnpause
    \/ DoInitEvent
    \/ DoInitUser
    \/ DoInitAfter
    \/ PausedEvent
    \/ PausedScheduler
    \/ \E t \in timers : Tick(t)
    \/ TickSchedule
    \/ \E i \in Apps, v \in BOOLEAN : SetPaused(i, v)
    \/ \E i \in Apps, v \in BOOLEAN : SetRaf(i, v)
    \/ \E v \in BOOLEAN : HandlerSetPaused(v)

SpecScheduler == Init /\ [][NextScheduler]_vars

\* Assignments of paused to one Application without plugins: by the user, by
\* the handlers of its events, by final init and by destroy
NextPause ==
    \/ Return
    \/ made = 0 /\ Construct(FALSE, FALSE)
    \/ ConstructEnd
    \/ \E i \in Apps : PreInit(i)
    \/ \E i \in Apps : SeriesReady(i)
    \/ DoInitUnpause
    \/ DoInitEvent
    \/ DoInitUser
    \/ DoInitAfter
    \/ PausedEvent
    \/ PausedScheduler
    \/ \E t \in timers : Tick(t)
    \/ TickSchedule
    \/ \E i \in Apps, v \in BOOLEAN : SetPaused(i, v)
    \/ \E v \in BOOLEAN : HandlerSetPaused(v)
    \/ \E i \in Apps : Destroy(i)
    \/ HandlerDestroy
    \/ DestroyEvent
    \/ DestroyFinish

SpecPause == Init /\ [][NextPause]_vars

\* The ticks of one Application with an initial display while time passes:
\* more displays are added before the scheduler runs, the user pauses and
\* resumes the Application at any time, and so do the handlers of update and
\* the displays' render
NextTick ==
    \/ Return
    \/ made = 0 /\ Construct(FALSE, TRUE)
    \/ ConstructEnd
    \/ \E i \in Apps : PreInit(i)
    \/ \E i \in Apps : SeriesReady(i)
    \/ DoInitUnpause
    \/ DoInitEvent
    \/ DoInitUser
    \/ DoInitAfter
    \/ PausedEvent
    \/ PausedScheduler
    \/ \E t \in timers : Tick(t)
    \/ TickRender
    \/ TickSchedule
    \/ \E i \in Apps, v \in BOOLEAN : SetPaused(i, v)
    \/ \E v \in BOOLEAN : stack # <<>> /\ Top.op = "tick" /\ HandlerSetPaused(v)
    \/ \E i \in Apps, id \in DisplayIds : timers = {} /\ AddDisplay(i, id)
    \/ Advance

SpecTick == Init /\ [][NextTick]_vars

\* The ticks of one Application with displays, one of whose update
\* handlers calls destroy
NextTickDestroy ==
    \/ Return
    \/ made = 0 /\ Construct(FALSE, TRUE)
    \/ ConstructEnd
    \/ \E i \in Apps : PreInit(i)
    \/ \E i \in Apps : SeriesReady(i)
    \/ DoInitUnpause
    \/ DoInitEvent
    \/ DoInitUser
    \/ DoInitAfter
    \/ PausedEvent
    \/ PausedScheduler
    \/ \E t \in timers : Tick(t)
    \/ TickRender
    \/ TickSchedule
    \/ AtTop("tick", "update") /\ HandlerDestroy
    \/ DestroyEvent
    \/ DestroyFinish
    \/ \E i \in Apps, id \in DisplayIds : timers = {} /\ AddDisplay(i, id)
    \/ Advance

SpecTickDestroy == Init /\ [][NextTickDestroy]_vars

\* One Application with plugins that is destroyed by the user while the
\* handlers of the events destroy emits and the teardown hooks call destroy
\* themselves
NextReentrant ==
    \/ Return
    \/ made = 0 /\ RegisterPlugin(FALSE)
    \/ \E canvas \in BOOLEAN : made = 0 /\ Construct(FALSE, canvas)
    \/ ConstructSetup
    \/ ConstructEnd
    \/ \E i \in Apps : PreInit(i)
    \/ \E i \in Apps : Destroy(i)
    \/ HandlerDestroy
    \/ PausedEvent
    \/ PausedScheduler
    \/ DestroyEvent
    \/ DestroyTeardown
    \/ DestroyFinish

SpecReentrant == Init /\ [][NextReentrant]_vars

\* The displays of one Application: added, removed, enabled and disabled
\* by the user at any time of its life
NextDisplayOps ==
    \/ Return
    \/ \E canvas \in BOOLEAN : made = 0 /\ Construct(FALSE, canvas)
    \/ ConstructEnd
    \/ \E i \in Apps : PreInit(i)
    \/ \E i \in Apps, id \in DisplayIds : AddDisplay(i, id)
    \/ \E i \in Apps, id \in DisplayIds : RemoveDisplay(i, id)
    \/ \E i \in Apps, v \in BOOLEAN : SetEnabled(i, v)
    \/ \E i \in Apps : Destroy(i)
    \/ PausedEvent
    \/ PausedScheduler
    \/ DestroyEvent
    \/ DestroyFinish

SpecDisplayOps == Init /\ [][NextDisplayOps]_vars

\* One Application constructed with plugins whose setup may throw; the
\* user may destroy it whatever became of its construction
NextSetup ==
    \/ Steps
    \/ \E hasPreload \in BOOLEAN : made = 0 /\ RegisterPlugin(hasPreload)
    \/ \E hasInit \in BOOLEAN, canvas \in BOOLEAN : made = 0 /\ Construct(hasInit, canvas)
    \/ ConstructSetupThrows
    \/ \E i \in Apps : Destroy(i)

SpecSetup == Init /\ [][NextSetup]_vars

\* The display registry of one Application that is not destroyed: displays
\* are added and removed under every id, the inherited ones included
NextRegistry ==
    \/ Return
    \/ \E canvas \in BOOLEAN : made = 0 /\ Construct(FALSE, canvas)
    \/ ConstructEnd
    \/ \E i \in Apps : PreInit(i)
    \/ \E i \in Apps, id \in DisplayIds : AddDisplay(i, id)
    \/ \E i \in Apps, id \in DisplayIds : RemoveDisplay(i, id)
    \/ \E i \in Apps, id \in ProtoIds : AddInherited(i, id)
    \/ \E i \in Apps, id \in ProtoIds : RemoveInherited(i, id)
    \/ \E i \in Apps, v \in BOOLEAN : SetEnabled(i, v)

SpecRegistry == Init /\ [][NextRegistry]_vars

\* The delay of a timeout request for every frame rate set through the fps
\* option and every time spent in the tick
FpsValues == {-60, -1, 0, 1, 30, 60, 400, 1000, 2000}

NextTimeout ==
    \/ Return
    \/ made = 0 /\ Construct(FALSE, FALSE)
    \/ ConstructEnd
    \/ \E i \in Apps : PreInit(i)
    \/ \E i \in Apps, value \in FpsValues : SetFps(i, value)
    \/ \E i \in Apps, timeInFrame \in 0..MaxSpent : RequestTimeout(i, timeInFrame)

SpecTimeout == Init /\ [][NextTimeout]_vars

\* One AssetSizes object: sizes are defined and reset, the stage is
\* measured, and a size is asked for with every supported map over the ids
NextAssets ==
    \/ \E id \in SizeIds, maxSize \in MaxSizeValues, fallback \in Fallbacks :
          Define(id, maxSize, fallback)
    \/ ResetSizes
    \/ \E width \in Dims, height \in Dims, dpr \in Ratios : Refresh(width, height, dpr)
    \/ \E hasSupported \in BOOLEAN, supported \in [SizeIds -> Support] :
          (~hasSupported => supported = NoCall.supported) /\ Size(hasSupported, supported)

SpecAssets == Init /\ [][NextAssets]_vars

\* Debug's remote connection, one socket at a time: connect is called while
\* Debug holds no socket; messages are logged at any time; the socket
\* opens, closes or fails when it will
NextDebug ==
    \/ \E fails \in BOOLEAN : debug._socket = NULL /\ Connect(fails)
    \/ \E s \in 1..MaxSockets : SocketOpen(s)
    \/ \E s \in 1..MaxSockets : SocketClose(s)
    \/ Disconnect
    \/ \E level \in Levels : RemoteLog(level)

SpecDebug == Init /\ [][NextDebug]_vars

\* One delayed call created by setTimeout or setInterval and driven by
\* update calls with every elapsed time
NextTimer ==
    \/ Return
    \/ made = 0 /\ Construct(FALSE, FALSE)
    \/ ConstructEnd
    \/ \E i \in Apps, delay \in Delays, useFrames \in BOOLEAN, autoDestroy \in BOOLEAN :
          SetTimeout(i, delay, useFrames, autoDestroy)
    \/ \E i \in Apps, delay \in Delays, useFrames \in BOOLEAN :
          SetInterval(i, delay, useFrames)
    \/ \E elapsed \in Elapsed : Update(elapsed)

SpecTimer == Init /\ [][NextTimer]_vars

\* One Application that is never destroyed.  A call in progress runs to its
\* end; the deferred _preInit, the completion signals of the preload tasks
\* and the deferred ready callback are each delivered eventually, however
\* often the user's calls come in between.
CallSteps ==
    \/ Return
    \/ ConstructSetup
    \/ ConstructEnd
    \/ PausedEvent
    \/ PausedScheduler
    \/ TickRender
    \/ TickSchedule
    \/ DoInitUnpause
    \/ DoInitEvent
    \/ DoInitUser
    \/ DoInitAfter

NextLive ==
    \/ CallSteps
    \/ \E hasPreload \in BOOLEAN : made = 0 /\ RegisterPlugin(hasPreload)
    \/ \E hasInit \in BOOLEAN, canvas \in BOOLEAN : made = 0 /\ Construct(hasInit, canvas)
    \/ \E i \in Apps : PreInit(i)
    \/ \E i \in Apps : PreloadDone(i)
    \/ \E i \in Apps : SeriesReady(i)
    \/ \E t \in timers : Tick(t)
    \/ \E i \in Apps, v \in BOOLEAN : SetPaused(i, v)

SpecLive ==
    /\ Init
    /\ [][NextLive]_vars
    /\ WF_vars(CallSteps)
    /\ SF_vars(\E i \in Apps : PreInit(i))
    /\ SF_vars(\E i \in Apps : PreloadDone(i))
    /\ SF_vars(\E i \in Apps : SeriesReady(i))

\* ---------------------------------------------------------------- claims
\* C1: at most one Application that is not destroyed exists, and it is the
\* one the static accessor returns; a construction while one is active
\* throws and constructs nothing; a construction with none active succeeds
\* and the accessor returns the new Application.
SingletonState ==
    /\ Cardinality({i \in 1..made : ~Destroyed(i)}) <= 1
    /\ \A i \in 1..made : ~Destroyed(i) => _instance = i
    /\ _instance # NULL => Exists(_instance) /\ ~Destroyed(_instance)
SingletonStep ==
    /\ _instance # NULL => made' = made /\ _instance' \in {_instance, NULL}
    /\ made' # made => made' = made + 1 /\ _instance' = made' /\ result' = "ok"
    /\ Idle /\ result' = "throw" => _instance # NULL /\ UNCHANGED <<_instance, made, app>>
SingletonDiscipline == []SingletonState /\ [][SingletonStep]_vars
SingletonWitness ==
    /\ made = 2
    /\ Destroyed(1)
    /\ _instance = 2
    /\ ~Destroyed(2)
    /\ result = "throw"

IsPrefix(s, t) == Len(s) <= Len(t) /\ SubSeq(t, 1, Len(s)) = s

\* C2: setup is invoked on the registered plugins in registration order
\* during construction, the preload hooks are started in registration order,
\* and destroy invokes teardown on every registered plugin in the reverse of
\* registration order, whatever displays were added or removed in between.
PluginOrder ==
    \A i \in 1..made :
        /\ IsPrefix(obs[i].setup, SetupOrder(obs[i].registered))
        /\ app[i].boot # "constructing" => obs[i].setup = SetupOrder(obs[i].registered)
        /\ IsPrefix(obs[i].preload, PreloadTasks)
        /\ \A x \in 1..Len(obs[i].teardown) :
              obs[i].teardown[x] = obs[i].teardown[1] - x + 1
        /\ Destroyed(i) =>
              /\ Len(obs[i].teardown) >= obs[i].registered
              /\ obs[i].teardown = Reverse(SetupOrder(Len(obs[i].teardown)))
PluginOrderWitness ==
    /\ AtTop("destroy", "teardown")
    /\ obs[1].setup = <<1, 2>>
    /\ obs[1].preload = <<1, 2>>
    /\ obs[1].teardown = <<2, 1>>
    /\ app[1]._displays = <<2>>
    /\ displays[1].destroyed = 1
\* C3: the preload tasks run one at a time: at most one task is started and
\* not yet completed, so a task is started only after the one before it
\* signalled completion, and final init runs only after the last task's
\* completion signal.
SerialPreload ==
    \A i \in 1..made :
        /\ Len(obs[i].preload) - obs[i].completed \in {0, 1}
        /\ IsPrefix(obs[i].preload, app[i].tasks)
        /\ obs[i].inits # <<>> =>
              /\ obs[i].preload = app[i].tasks
              /\ obs[i].completed = Len(app[i].tasks)
SerialPreloadWitness ==
    /\ obs[1].preload = <<1, 2>>
    /\ obs[1].completed = 2
    /\ obs[1].inits # <<>>

\* C4: final init emits beforeInit, then pause(false) and resumed with the
\* scheduler started, then init, then the user's init callback if there is
\* one, then afterInit, each once per Application and in that order, and
\* none of them before every preload task has completed.
InitEvents(i) ==
    <<"beforeInit", "init">> \o (IF app[i].init THEN <<"userInit">> ELSE <<>>)
        \o <<"afterInit">>
InitTrace(i) ==
    <<Ev("beforeInit", 0), Ev("pause", 0), Ev("resumed", 0), Ev("init", 0)>>
        \o (IF app[i].init THEN <<Ev("userInit", 0)>> ELSE <<>>)
        \o <<Ev("afterInit", 0)>>
FinalInitOrder ==
    /\ \A i \in 1..made :
          /\ IsPrefix(obs[i].inits, InitEvents(i))
          /\ obs[i].inits # <<>> => obs[i].completed = Len(app[i].tasks)
    /\ AtTop("doInit", "done") =>
          /\ obs[Top.i].inits = InitEvents(Top.i)
          /\ SelectSeq(trace, LAMBDA e : e.ev # "request") = InitTrace(Top.i)
          /\ \A x \in 1..Len(trace) : trace[x].ev = "request" => x = 4
          /\ \E t \in TimersOf(Top.i) : t.id = app[Top.i]._tickId
FinalInitOrderWitness ==
    /\ AtTop("doInit", "done")
    /\ app[1].init
    /\ app[1].tasks = <<1, 2>>
    /\ Len(trace) = 7

\* C5: when destroy is called while the preload tasks are in flight, no
\* beforeInit, init or afterInit is emitted for that Application, no tick is
\* requested after the call, and the destroy invokes the teardown of every
\* registered plugin.
DestroyDuringPreload ==
    \A i \in 1..made :
        obs[i].destroyAt = "loading" =>
            /\ obs[i].inits = <<>>
            /\ ~obs[i].lateStart
            /\ Destroyed(i) =>
                  /\ TimersOf(i) = {}
                  /\ \A p \in 1..obs[i].registered : p \in Range(obs[i].teardown)
DestroyDuringPreloadWitness ==
    /\ obs[1].destroyAt = "loading"
    /\ Destroyed(1)
    /\ app[1].boot = "done"
    /\ obs[1].completed = 2
    /\ obs[1].teardown = <<2, 1>>

\* C6: once destroy has been called on an Application, no preload hook is
\* started on it, no initial display is created for it and its final init
\* does not run.
BootStopsAtDestroy ==
    \A i \in 1..made :
        /\ ~obs[i].latePreload
        /\ ~obs[i].lateDisplay
        /\ ~obs[i].lateInit

\* C7: an Application that is not destroyed and whose preload tasks all
\* signal completion eventually emits afterInit, and from then on, between
\* calls, a tick request is pending whenever it is not paused.
Booted(i) == Exists(i) /\ "afterInit" \in Range(obs[i].inits)
PausedUntilInit ==
    \A i \in 1..made :
        app[i].boot \in {"preInit", "loading", "ready"} => Paused(i)
\* C8, amended: from construction until paused is first assigned, the paused
\* accessor reads false.
UnpausedUntilAssigned ==
    \A i \in 1..made : ~obs[i].assigned => ~Paused(i)
UnpausedUntilAssignedWitness ==
    /\ app[1].boot = "loading"
    /\ ~obs[1].assigned
    /\ ~Paused(1)

\* C9: every assignment of paused, also of the value it already has, emits
\* pause with the new value and then paused or resumed, and only then is the
\* scheduler stopped or started.
PausedFrames == {x \in 1..Len(stack) : stack[x].op = "paused"}
PauseEventsState ==
    \A x \in PausedFrames :
        LET f == stack[x] IN
        /\ f.at < Len(trace)
        /\ trace[f.at + 1] = Ev("pause", B(f.v))
        /\ f.pc # "pause" =>
              /\ f.at + 1 < f.k
              /\ f.k <= Len(trace)
              /\ trace[f.k] = Ev(IF f.v THEN "paused" ELSE "resumed", B(f.v))
        /\ f.pc = "done" /\ nested = 0 /\ Last(trace).ev \in {"cancel", "request"} =>
              Len(trace) = f.at + 3
PauseEventsStep ==
    /\ Len(stack') > Len(stack) /\ Last(stack').op = "paused" =>
          Last(stack').pc = "pause" /\ app'[Last(stack').i]._paused = Last(stack').v
    /\ stack' # <<>> /\ Last(stack').op = "paused" /\ Last(stack').pc \in {"pause", "paused"} =>
          /\ timers' = timers
          /\ \A i \in Apps : app'[i]._tickId = app[i]._tickId
PauseEvents == []PauseEventsState /\ [][PauseEventsStep]_vars
PauseEventsWitness ==
    /\ Len(stack) = 2
    /\ stack[1].op = "paused"
    /\ stack[1].v
    /\ AtTop("paused", "done")
    /\ Top.v
    /\ trace[Top.k] = Ev("paused", 1)

\* C10: at most one tick request, of either kind, is pending for an
\* Application.
SingleRequest ==
    \A i \in Apps : Cardinality(TimersOf(i)) <= 1

\* C11: a tick callback that fires while the Application is paused emits no
\* event, renders no display, leaves the last-frame timestamp as it was and
\* requests no further tick.
PausedTickAborts ==
    [][\A i \in Apps :
          (Idle /\ Paused(i) /\ \E t \in TimersOf(i) : t \notin timers') =>
              /\ stack' = <<>>
              /\ trace' = <<>>
              /\ app'[i]._lastFrameTime = app[i]._lastFrameTime
              /\ app'[i]._tickId = NoTick
              /\ timers' \subseteq timers
              /\ displays' = displays]_vars
PausedTickAbortsWitness ==
    /\ Idle
    /\ Paused(1)
    /\ TimersOf(1) # {}
    /\ now > app[1]._lastFrameTime
    /\ app[1]._displays # <<>>

\* C12: the first update after a resume that follows a pause reports the
\* time elapsed since that resume.
ResumeBaseline ==
    [][(Idle /\ stack' # <<>> /\ Last(stack').op = "tick"
            /\ obs[Last(stack').i].resumedAt >= 0) =>
          Last(trace') = Ev("update", now - obs[Last(stack').i].resumedAt)]_vars

\* C13: whenever the Application is paused and no call is in progress, no
\* tick request is outstanding and the scheduler handle is none.
PauseStopsScheduler ==
    \A i \in 1..made :
        Idle /\ Paused(i) => app[i]._tickId = NoTick /\ TimersOf(i) = {}

\* C14: a tick that runs while not paused stores the sampled time as the new
\* baseline, emits update with the elapsed time, renders every registered
\* display in registration order with that elapsed time, and then requests
\* one next tick.
Renders(i, elapsed) ==
    [x \in 1..Len(app[i]._displays) |-> RenderEv(app[i]._displays[x], elapsed)]
TickOrder ==
    AtTop("tick", "done") =>
        LET i == Top.i
            own == <<Ev("update", Top.n)>> \o Renders(i, Top.n) IN
        /\ app[i]._lastFrameTime = now
        /\ SelectSeq(trace, LAMBDA e : e.ev \in {"update", "render"}) = own
        /\ Last(trace) = Ev("request", app[i]._tickId)
        /\ \E t \in TimersOf(i) : t.id = app[i]._tickId
        /\ nested = 0 => trace = Append(own, Ev("request", app[i]._tickId))
TickOrderWitness ==
    /\ AtTop("tick", "done")
    /\ Len(app[1]._displays) = 2
    /\ Top.n = 1
    /\ nested = 0

\* C15: the delay of a timeout request is max(0, msPerFrame - timeInFrame):
\* never negative and never above msPerFrame, for every fps value and every
\* time spent in the tick, 0 included.
TimeoutDelay ==
    \A t \in timers :
        /\ t.delay = Max(0, t.ms - t.spent)
        /\ t.delay >= 0
        /\ t.delay <= t.ms

\* C16: addDisplay with an id that is registered throws and changes nothing:
\* no display is created, the registered display stays in the map and the
\* list, the primary display stays, and no displayAdded is emitted.
Registered(i) == {id \in DisplayIds : app[i]._displaysMap[id] # NULL}
RegistryState ==
    \A i \in 1..made :
        app[i]._displaysMap # NullMap =>
            /\ \A id \in Registered(i) :
                  /\ app[i]._displaysMap[id] \in Range(app[i]._displays)
                  /\ displays[app[i]._displaysMap[id]].id = id
            /\ \A h \in Range(app[i]._displays) :
                  app[i]._displaysMap[displays[h].id] = h
            /\ Len(app[i]._displays) = Cardinality(Registered(i))
DuplicateAddStep ==
    \A i \in Apps, id \in DisplayIds :
        (/\ Exists(i)
         /\ app[i]._displaysMap # NullMap
         /\ app[i]._displaysMap[id] # NULL
         /\ AddDisplay(i, id)) =>
            /\ result' = "throw"
            /\ UNCHANGED <<app, displays, trace, stack>>
DuplicateAdd == []RegistryState /\ [][DuplicateAddStep]_vars
DuplicateAddWitness ==
    /\ result = "throw"
    /\ app[1].boot # "failed"
    /\ app[1]._displaysMap # NullMap
    /\ app[1]._displays = <<1, 2>>

\* C17: every registered display's enabled flag equals the Application's:
\* an assignment of enabled sets it on all registered displays, and a
\* display added later gets the value current at that time.
EnabledMirrored ==
    \A i \in 1..made :
        app[i]._displays # NullList =>
            \A h \in Range(app[i]._displays) : displays[h].enabled = app[i]._enabled
EnabledMirroredWitness ==
    /\ app[1]._displays = <<1, 2>>
    /\ ~app[1]._enabled
    /\ ~displays[1].enabled
    /\ ~displays[2].enabled

\* C18 as stated: the primary display is set exactly when the display list
\* is not empty, and it is then the first-added display still in the list.
PrimaryIffNonEmpty ==
    \A i \in 1..made :
        ~Destroyed(i) =>
            /\ app[i].display # NULL <=> app[i]._displays # <<>>
            /\ app[i].display # NULL => app[i].display = app[i]._displays[1]
\* C18, amended: the primary display is set exactly when a display has been
\* added, and it is the first display ever added, removed or not.
EverAdded(i) == {h \in DOMAIN displays : displays[h].app = i}
PrimaryFirstAdded ==
    \A i \in 1..made :
        ~Destroyed(i) =>
            IF EverAdded(i) = {}
            THEN app[i].display = NULL
            ELSE /\ app[i].display \in EverAdded(i)
                 /\ \A h \in EverAdded(i) : app[i].display <= h
PrimaryFirstAddedWitness ==
    /\ ~Destroyed(1)
    /\ app[1]._displays = <<>>
    /\ app[1].display = 1

\* C19: removeDisplay does not change the primary display: once set it
\* stays the same display, also after that display is removed and others
\* are added, until destroy.
PrimaryKept ==
    [][\A i \in Apps :
          app[i].display # NULL /\ ~app'[i].destroyed =>
              app'[i].display = app[i].display]_vars
PrimaryKeptWitness ==
    /\ ~Destroyed(1)
    /\ app[1].display = 1
    /\ displays[1].destroyed = 1
    /\ app[1]._displays = <<2>>

\* C20: removeDisplay of an id that is not registered changes nothing;
\* of a registered id it takes the display out of the list and the map,
\* destroys it once and emits displayRemoved with the id, after which the
\* id can be added again.
RemoveStep ==
    \A i \in Apps, id \in DisplayIds :
        (Exists(i) /\ app[i]._displaysMap # NullMap /\ RemoveDisplay(i, id)) =>
            LET h == app[i]._displaysMap[id] IN
            IF h = NULL
            THEN UNCHANGED <<app, displays, trace, stack>>
            ELSE /\ Range(app'[i]._displays) = Range(app[i]._displays) \ {h}
                 /\ app'[i]._displaysMap = [app[i]._displaysMap EXCEPT ![id] = NULL]
                 /\ displays' = [displays EXCEPT ![h].destroyed = 1]
                 /\ displays[h].destroyed = 0
                 /\ trace' = <<IdEv("displayRemoved", id)>>
NoDuplicates(s) == \A x, y \in 1..Len(s) : s[x] = s[y] => x = y
DestroyedOnce ==
    /\ \A i \in 1..made : NoDuplicates(obs[i].teardown)
    /\ \A h \in DOMAIN displays : displays[h].destroyed <= 1
DestroyAgainStep ==
    \A i \in 1..made :
        Destroyed(i) /\ Destroy(i) =>
            /\ UNCHANGED <<_instance, _plugins, made, app, displays, timers, now,
                           stack, trace, nested>>
            /\ obs' = [obs EXCEPT ![i].again = TRUE]
            /\ result' = "ok"
IdempotentDestroy == []DestroyedOnce /\ [][DestroyAgainStep]_vars
IdempotentDestroyWitness ==
    /\ made = 2
    /\ obs[1].again
    /\ obs[1].teardown # <<>>
    /\ _instance = 2
    /\ ~Destroyed(2)
    /\ Idle

\* C22: destroy called by the user first forces paused to true (pause, then
\* paused, then the pending tick request cancelled), then emits destroy, then
\* runs the teardown hooks, then destroys the displays, clears the display
\* containers and releases the singleton; while the teardown hooks run the
\* static accessor returns the Application, it is paused with no tick
\* request pending, and its displays are registered and not destroyed.
DestroyAt(t) == IF Len(t) >= 3 /\ t[3].ev = "cancel" THEN 4 ELSE 3
DestroyedNoOpStep ==
    \A i \in 1..made :
        /\ Destroyed(i)
        /\ \/ \E id \in DisplayIds : AddDisplay(i, id) \/ RemoveDisplay(i, id)
           \/ \E v \in BOOLEAN : SetEnabled(i, v) \/ SetPaused(i, v)
           \/ Destroy(i)
        => /\ result' # "throw"
           /\ UNCHANGED <<_instance, _plugins, made, app, displays, timers, now,
                          stack, trace, nested>>
DestroyedNoOp == [][DestroyedNoOpStep]_vars

\* C24: when a plugin's setup throws during construction, the exception
\* reaches the caller of the constructor, no later plugin's setup is
\* invoked, the constructor does not get to options.init() or to
\* setTimeout(_preInit), and so no preload hook starts, no init event is
\* emitted and no tick is requested for that Application.
SetupThrowState ==
    \A i \in 1..made :
        obs[i].setupThrew =>
            /\ app[i].boot = "constructing"
            /\ ~app[i].options.listening
            /\ obs[i].setup # <<>>
            /\ IsPrefix(obs[i].setup, SetupOrder(obs[i].registered))
            /\ obs[i].preload = <<>>
            /\ obs[i].completed = 0
            /\ obs[i].inits = <<>>
            /\ TimersOf(i) = {}
            /\ \A x \in 1..Len(stack) : ~(stack[x].op \in {"new", "doInit", "tick"})
SetupThrowStep ==
    \A i \in 1..made' :
        /\ obs[i].setupThrew => obs'[i].setup = obs[i].setup
        /\ ~obs[i].setupThrew /\ obs'[i].setupThrew =>
               /\ stack' = <<>>
               /\ result' = "throw"
               /\ obs'[i].setup = Append(obs[i].setup, Len(obs[i].setup) + 1)
SetupThrowAborts == []SetupThrowState /\ [][SetupThrowStep]_vars
SetupThrowAbortsWitness ==
    /\ obs[1].setupThrew
    /\ obs[1].setup = <<1>>
    /\ Len(_plugins) = 2
    /\ _plugins[2]
    /\ Idle
    /\ result = "throw"
    /\ _instance = 1

\* C25: a plugin's preload and teardown hooks are invoked on an Application
\* only if its setup was invoked on that Application during construction; a
\* plugin registered after the construction is not picked up.
LateRegistrantIgnored ==
    \A i \in 1..made :
        /\ Range(obs[i].preload) \subseteq Range(obs[i].setup)
        /\ Range(obs[i].teardown) \subseteq Range(obs[i].setup)

\* C26: a repeating millisecond timer with interval 100 that has received
\* only update(40) calls has fired once after the fourth call and twice
\* after the fifth; in general, while no update passes more than the
\* interval, it has fired as often as the interval fits into the total
\* elapsed time, so its n-th firing comes at the first update at which the
\* total reaches n * 100.
RECURSIVE Sum(_)
Sum(s) == IF s = <<>> THEN 0 ELSE Head(s) + Sum(Tail(s))
IntervalFirings ==
    \A c \in DelayedCalls :
        c.repeat /\ ~c.useFrames /\ c.delay = 100 =>
            /\ c.args = [x \in 1..4 |-> 40] => c.fired = 1
            /\ c.args = [x \in 1..5 |-> 40] => c.fired = 2
            /\ (\A x \in 1..Len(c.args) : c.args[x] <= 100) =>
                   c.fired = Sum(c.args) \div 100
IntervalFiringsWitness ==
    \E c \in DelayedCalls :
        /\ c.repeat /\ ~c.useFrames /\ c.delay = 100
        /\ c.args = [x \in 1..5 |-> 40]
        /\ c.fired = 2
        /\ c.timer = 100

\* C27: a frame-unit timer with count 3 has not fired before its third
\* update call and fires on the third, whatever elapsed times the calls
\* pass; a non-repeating one never fires again, a repeating one fires on
\* every third call.
FrameFirings ==
    \A c \in DelayedCalls :
        c.useFrames /\ c.delay = 3 =>
            /\ Len(c.args) < 3 => c.fired = 0 /\ c.active
            /\ Len(c.args) >= 3 /\ ~c.repeat => c.fired = 1 /\ ~c.active
            /\ c.repeat => c.fired = Len(c.args) \div 3
FrameFiringsWitness ==
    \E c \in DelayedCalls :
        /\ c.useFrames /\ c.delay = 3 /\ ~c.repeat
        /\ c.args = <<250, 0, 40, 250, 250>>
        /\ c.fired = 1

\* C28: when an update handler of a running tick calls destroy, the rest of
\* that tick renders no display, raises no error and requests no tick; the
\* destroyed Application has no tick request pending, so no tick runs on it
\* afterwards.
InTick == stack # <<>> /\ stack[1].op = "tick"
DestroyInUpdateState ==
    /\ \A i \in 1..made :
          Destroyed(i) => TimersOf(i) = {} /\ app[i]._tickId = NoTick
    /\ InTick /\ Destroyed(stack[1].i) =>
          \A x \in 2..Len(trace) : trace[x].ev \notin {"render", "request", "update"}
DestroyInUpdateStep ==
    /\ InTick => result' # "throw"
    /\ \A t \in timers : Tick(t) => ~Destroyed(t.app)
ReentrantDestroy ==
    /\ \A i \in 1..made : NoDuplicates(obs[i].teardown)
    /\ \A h \in DOMAIN displays : displays[h].destroyed <= 1
    /\ result # "throw"

\* C30: no display's render is invoked while the paused flag of its
\* Application is true, also when an update handler or an earlier display's
\* render of the same tick has assigned paused = true.
NoRenderWhilePausedStep ==
    TickRender /\ Len(trace') > Len(trace) /\ Last(trace').ev = "render" =>
        ~Paused(Top.i)
NoRenderWhilePaused == [][NoRenderWhilePausedStep]_vars

\* C31: on an Application that is not destroyed, after any addDisplay and
\* removeDisplay calls, failed ones included, the display list and the
\* id-to-display map hold the same handles, each handle is in the list
\* once, no two listed displays share an id, and getDisplay(id) returns a
\* handle exactly when that handle is in the list.
RegistryConsistent ==
    \A i \in 1..made :
        ~Destroyed(i) =>
            LET list == app[i]._displays IN
            /\ {app[i]._displaysMap[id] : id \in Registered(i)} = Range(list)
            /\ NoDuplicates(list)
            /\ \A x, y \in 1..Len(list) :
                   displays[list[x]].id = displays[list[y]].id => x = y
            /\ \A id \in DisplayIds :
                   GetDisplay(i, id) # NULL <=> GetDisplay(i, id) \in Range(list)

\* C32: size(supported) throws "Asset does not support any valid size" when
\* the supported map rejects the preferred size and maps every one of its
\* fallbacks to false, and it never returns a size whose id the supported
\* map maps to false.
SizeRejected ==
    LET c == assets.call
        size == assets._preferredSize IN
    c.op = "size" /\ c.hasSupported /\ size # NullSize =>
        /\ (/\ c.supported[size.id] # "true"
            /\ \A x \in 1..Len(size.fallback) : c.supported[size.fallback[x]] = "false")
           => c.threw = "Asset does not support any valid size"
        /\ c.returned # NullSize => c.supported[c.returned.id] # "false"

\* C33: the size list is sorted ascending by maxSize after every define,
\* and refresh(width, height) leaves as the preferred size a defined size
\* of the smallest maxSize among those whose maxSize / devicePixelRatio is
\* greater than min(width, height), and null when there is none.
Qualifying(minSize, dpr) ==
    {x \in 1..Len(assets._sizes) : assets._sizes[x].maxSize > minSize * dpr}
RefreshPrefers ==
    /\ Sorted(assets._sizes)
    /\ LET c == assets.call
           q == Qualifying(c.minSize, c.dpr) IN
       c.op = "refresh" =>
           IF q = {}
           THEN assets._preferredSize = NullSize
           ELSE \E x \in q :
                    /\ assets._preferredSize = assets._sizes[x]
                    /\ \A y \in q : assets._sizes[x].maxSize <= assets._sizes[y].maxSize
RefreshPrefersWitness ==
    /\ assets.call.op = "refresh"
    /\ Len(assets._sizes) = 2
    /\ assets._sizes[1].id = "hd"
    /\ assets._sizes[2].id = "sd"
    /\ assets._sizes[1].maxSize = 2
    /\ assets._sizes[2].maxSize = 4
    /\ assets.call.minSize = 1
    /\ assets.call.dpr = 1
    /\ assets._preferredSize = assets._sizes[1]

\* C34: the messages logged between Debug.connect and the open event of its
\* socket are queued and nothing is sent; on open the session message is
\* sent, then the queued messages in the order they were logged, each once,
\* and the queue is released; each message logged while the socket is open
\* is sent at once; after close or disconnect nothing is sent on the socket.
RemoteDeliveryState ==
    \A s \in DOMAIN debug.sockets :
        LET k == debug.sockets[s] IN
        /\ k.state = "connecting" =>
               /\ k.sent = <<>>
               /\ debug._socket = s => ~debug._messageQueue.isNull
                                       /\ debug._messageQueue.items = k.early
        /\ k.opened => k.sent = <<Session>> \o k.early \o k.late
        /\ k.state = "open" /\ debug._socket = s => debug._messageQueue.isNull
        /\ k.state = "closed" /\ ~k.opened => k.sent = <<>>
RemoteDeliveryStep ==
    \A s \in DOMAIN debug.sockets :
        debug.sockets[s].state = "closed" \/ debug._socket # s =>
            debug'.sockets[s].sent = debug.sockets[s].sent
====
